---- MODULE Spec2Model ----
(***************************************************************************)
(* A model of the GitHub document manager: the PKCE session store          *)
(* (src/js/auth.js), the content gateway (src/js/github-api.js) and the    *)
(* application state machine (src/unnamed/part_000, the App module).       *)
(*                                                                         *)
(* Every handler of the program is an async function.  A handler runs      *)
(* without interruption up to its next await; the request it awaits is     *)
(* kept in the bag inflight together with the handler's captured locals    *)
(* and the frames that wait for it.  The response is chosen by the         *)
(* environment when the request resolves, and the action that resolves it  *)
(* runs the handler up to its next await or its end.                       *)
(***************************************************************************)
EXTENDS Integers, Sequences, FiniteSets, Bags, TLC

----------------------------------------------------------------------------
(* Bounds of the model *)

\* number of Auth.initiateLogin calls in one behaviour
MaxLogins == 2

\* number of times the page is loaded again (redirect back, reload, link)
MaxPageLoads == 2

\* number of requests that may be outstanding at the same time
MaxInflight == 2

----------------------------------------------------------------------------
(* Values *)

\* JavaScript null for string-valued things (sessionStorage.getItem, URLSearchParams.get)
Null == <<>>

\* the verifier and the state generated by the k-th initiateLogin call:
\* two independent random strings, told apart by the call that drew them
Verifier(k) == <<"verifier", k>>
OAuthState(k) == <<"state", k>>

HandshakeIds == 1..MaxLogins

\* what sessionStorage may hold under oauth_code_verifier
VerifierValues == {Null} \cup {Verifier(k) : k \in HandshakeIds}

\* access tokens the token endpoint may return
Tokens == {<<"token", 1>>, <<"token", 2>>}

\* authorization codes a callback URL may carry
Codes == {<<"code", 1>>}

\* the state parameter of a callback URL: absent, one this tab generated,
\* or one it never generated (id 0)
UrlStates == {Null} \cup {OAuthState(k) : k \in 0..MaxLogins}

\* the error parameter of a callback URL
UrlErrors == {Null, <<"error", "access_denied">>}

\* window.location.search as URLSearchParams reads it
UrlParams == [code : Codes \cup {Null}, state : UrlStates, error : UrlErrors]

CleanUrl == [code |-> Null, state |-> Null, error |-> Null]

\* the JSON bodies the token-exchange endpoint may answer with
ExchangeResponses ==
    [error : {Null, <<"error", "bad_verification_code">>},
     access_token : Tokens \cup {Null}]

\* number of user intents on the dashboard in one behaviour
MaxIntents == 3

\* number of user intents in one behaviour where termination is checked
LiveIntents == 2

\* how deep below the root of a repository the folders go
MaxDepth == 1

\* document texts
Texts == {"x", "y"}

\* the text handleCreateFile writes into a new document
Template == "# n"

\* blob revisions the content API may return
Sha(k) == <<"sha", k>>
Shas == {Sha(1), Sha(2)}

\* commits the history of a file may list
Commit(k) == <<"commit", k>>
Commits == {Commit(1), Commit(2)}

\* paths are sequences of segments; '' is the root
Root == <<>>

\* `${currentPath}/${name}`, or name at the root
Join(path, name) == Append(path, name)

\* path.split('/').pop()
BaseName(path) == path[Len(path)]

\* the name typed into the create-document and create-folder dialogs
NewFileName == "n.md"
NewFolderName == "f"

\* the name typed into the create-repository dialog, and the full name of
\* the repository it makes
NewRepoName == "n"
NewRepoFullName == "o/n"

\* no revision obtained for any path
NothingObtained == <<>>

\* the revision obtained last for a path, null when there is none
ObtainedFor(c, path) == IF path \in DOMAIN c.obtained THEN c.obtained[path] ELSE Null

\* the gateway returned revision sha for path
Obtain(c, path, sha) ==
    [c EXCEPT !.obtained = [p \in (DOMAIN @) \cup {path} |-> IF p = path THEN sha ELSE @[p]]]

\* entries of a directory listing
FileEntry(dir, name, sha) == [name |-> name, path |-> Join(dir, name), type |-> "file", sha |-> sha]
DirEntry(dir, name) == [name |-> name, path |-> Join(dir, name), type |-> "dir", sha |-> Null]

\* the placeholder file GitHubAPI.createFolder writes into a new folder
GitKeep == ".gitkeep"

\* item.name.endsWith('.md'), over the names of the model
EndsWithMd(name) == name \in {"a.md", "b.md", NewFileName}

\* the arrays get-repository-content may answer a directory request with: a
\* folder that holds its placeholder only, a folder with documents
Listings(dir) ==
    LET files == <<FileEntry(dir, "a.md", Sha(1)), FileEntry(dir, "b.md", Sha(1))>>
    IN  {<<FileEntry(dir, GitKeep, Sha(1))>>,
         IF Len(dir) < MaxDepth THEN Append(files, DirEntry(dir, "d")) ELSE files}

VARIABLES
    accessToken,      \* sessionStorage[github_access_token]
    codeVerifier,     \* sessionStorage[oauth_code_verifier]
    oauthState,       \* sessionStorage[oauth_state]
    octokitInstance,  \* Auth's cached client: Null, or the token it was built with
    url,              \* the callback parameters of window.location
    phase,            \* "constructed" before App.init has run, "running" after
    view,             \* which view UI shows: "none", "login", "dashboard"
    user,             \* state.user
    repositories,     \* state.repositories
    currentRepo,      \* state.currentRepo
    currentPath,      \* state.currentPath
    currentFile,      \* state.currentFile
    contents,         \* state.contents
    fileHistory,      \* state.fileHistory
    isModified,       \* state.isModified
    editor,           \* UI's elements.editor.value
    editorShown,      \* UI's editor container is visible
    saveDisabled,     \* UI's elements.saveBtn.disabled
    loading,          \* UI's loading overlay is shown
    inflight,         \* bag of awaited requests with their continuations
    handshakes,       \* number of initiateLogin calls so far
    lastHandshake,    \* id of the initiateLogin call that persisted last (0: none)
    pageLoads,        \* number of page loads after the first
    tokenRequests,    \* per verifier, the number of token-exchange requests sent with it
    intents,          \* number of user intents on the dashboard so far
    obtained,         \* per file path, the revision the gateway returned last for it
    last,             \* the step just taken: operation, outcome, toasts, request, response
    worker            \* the token-exchange proxy: its request, its answer, what it sent

vars == <<accessToken, codeVerifier, oauthState, octokitInstance, url, phase, view,
          user, repositories, currentRepo, currentPath, currentFile, contents,
          fileHistory, isModified, editor, editorShown, saveDisabled, loading,
          inflight, handshakes, lastHandshake, pageLoads, tokenRequests,
          intents, obtained, last, worker>>

----------------------------------------------------------------------------
(* The whole configuration as one record, so that a handler is an operator  *)
(* from configurations to configurations and handlers can call each other. *)

Cfg ==
    [accessToken |-> accessToken, codeVerifier |-> codeVerifier,
     oauthState |-> oauthState, octokitInstance |-> octokitInstance,
     url |-> url, phase |-> phase, view |-> view,
     user |-> user, repositories |-> repositories, currentRepo |-> currentRepo,
     currentPath |-> currentPath, currentFile |-> currentFile,
     contents |-> contents, fileHistory |-> fileHistory, isModified |-> isModified,
     editor |-> editor, editorShown |-> editorShown,
     saveDisabled |-> saveDisabled, loading |-> loading,
     inflight |-> inflight, handshakes |-> handshakes,
     lastHandshake |-> lastHandshake, pageLoads |-> pageLoads,
     tokenRequests |-> tokenRequests, intents |-> intents,
     obtained |-> obtained, last |-> last, worker |-> worker]

Becomes(c) ==
    /\ accessToken' = c.accessToken
    /\ codeVerifier' = c.codeVerifier
    /\ oauthState' = c.oauthState
    /\ octokitInstance' = c.octokitInstance
    /\ url' = c.url
    /\ phase' = c.phase
    /\ view' = c.view
    /\ user' = c.user
    /\ repositories' = c.repositories
    /\ currentRepo' = c.currentRepo
    /\ currentPath' = c.currentPath
    /\ currentFile' = c.currentFile
    /\ contents' = c.contents
    /\ fileHistory' = c.fileHistory
    /\ isModified' = c.isModified
    /\ editor' = c.editor
    /\ editorShown' = c.editorShown
    /\ saveDisabled' = c.saveDisabled
    /\ loading' = c.loading
    /\ inflight' = c.inflight
    /\ handshakes' = c.handshakes
    /\ lastHandshake' = c.lastHandshake
    /\ pageLoads' = c.pageLoads
    /\ tokenRequests' = c.tokenRequests
    /\ intents' = c.intents
    /\ obtained' = c.obtained
    /\ last' = c.last
    /\ worker' = c.worker

\* no request, no response
None == [none |-> TRUE]

\* the configuration at the start of a step named op
Begin(op) == [Cfg EXCEPT !.last = [op |-> op, out |-> "ok", toasts |-> <<>>,
                                   req |-> None, resp |-> None]]

\* the step resolves request r with response resp
BeginResolve(op, r, resp) ==
    [Cfg EXCEPT !.inflight = @ (-) SetToBag({r}),
                !.last = [op |-> op, out |-> "ok", toasts |-> <<>>,
                          req |-> r, resp |-> resp]]

\* UI.showToast(message, type): the type is kept
showToast(c, type) == [c EXCEPT !.last.toasts = Append(@, type)]

\* the outcome recorded for the step
Outcome(c, o) == [c EXCEPT !.last.out = o]

showLoading(c) == [c EXCEPT !.loading = TRUE]
hideLoading(c) == [c EXCEPT !.loading = FALSE]
showLoginView(c) == [c EXCEPT !.view = "login"]
showDashboardView(c) == [c EXCEPT !.view = "dashboard"]

\* UI.hideEditor hides the container and empties the textarea
hideEditor(c) == [c EXCEPT !.editor = "", !.editorShown = FALSE]

\* UI.showEditor(filename, content)
showEditor(c, content) ==
    [c EXCEPT !.editor = content, !.editorShown = TRUE, !.saveDisabled = TRUE]

\* UI.setEditorModified and UI.setEditorSaved
setEditorModified(c) == [c EXCEPT !.saveDisabled = FALSE]
setEditorSaved(c) == [c EXCEPT !.saveDisabled = TRUE]

\* a handler awaits request r
Await(c, r) == [c EXCEPT !.inflight = @ (+) SetToBag({r})]

Outstanding == BagToSet(inflight)
CanIssue == BagCardinality(inflight) < MaxInflight

----------------------------------------------------------------------------
(* Session store: src/js/auth.js *)

\* the three sessionStorage keys
Session(c) == [token |-> c.accessToken, verifier |-> c.codeVerifier, state |-> c.oauthState]

\* Auth.isAuthenticated
isAuthenticated(c) == c.accessToken # Null

\* Auth.getOctokit: the configuration after the call; the instance is built
\* from the stored token only when none is cached
getOctokit(c) ==
    IF c.accessToken = Null THEN c
    ELSE IF c.octokitInstance = Null THEN [c EXCEPT !.octokitInstance = c.accessToken]
    ELSE c

\* Auth.getOctokit returned null: the gateway throws 'Not authenticated'
NotAuthenticated(c) == c.accessToken = Null

\* Auth.logout that forgets the pending verifier
logoutKeepsVerifier(c) ==
    [c EXCEPT !.accessToken = Null, !.oauthState = Null, !.octokitInstance = Null]

\* Auth.logout that keeps the cached client
logoutKeepsClient(c) ==
    [c EXCEPT !.accessToken = Null, !.codeVerifier = Null, !.oauthState = Null]

\* Auth.logout
logout(c) ==
    [c EXCEPT !.accessToken = Null, !.codeVerifier = Null, !.oauthState = Null,
              !.octokitInstance = Null]

\* Auth.initiateLogin that keeps a verifier already stored
persistHandshakeKeepsVerifier(c, k) ==
    [c EXCEPT !.codeVerifier = IF @ = Null THEN Verifier(k) ELSE @,
              !.oauthState = OAuthState(k), !.lastHandshake = k]

\* Auth.initiateLogin after its await: generate the state, persist the pair
\* (the redirect to GitHub follows)
persistHandshake(c, k) ==
    [c EXCEPT !.codeVerifier = Verifier(k), !.oauthState = OAuthState(k),
              !.lastHandshake = k]

\* Auth.handleCallback that compares the state only when the url carries one
CallbackOutcomeOptionalState(u, savedState, savedVerifier) ==
    IF u.error # Null THEN "oauthError"
    ELSE IF u.code = Null THEN "notCallback"
    ELSE IF u.state # Null /\ u.state # savedState THEN "stateMismatch"
    ELSE IF savedVerifier = Null THEN "missingVerifier"
    ELSE "exchange"

\* Auth.handleCallback that does not look for the verifier
CallbackOutcomeNoVerifierCheck(u, savedState, savedVerifier) ==
    IF u.error # Null THEN "oauthError"
    ELSE IF u.code = Null THEN "notCallback"
    ELSE IF u.state # savedState THEN "stateMismatch"
    ELSE "exchange"

\* the synchronous part of Auth.handleCallback on the parameters of the url:
\* the outcome before any request is sent
CallbackOutcome(u, savedState, savedVerifier) ==
    IF u.error # Null THEN "oauthError"
    ELSE IF u.code = Null THEN "notCallback"
    ELSE IF u.state # savedState THEN "stateMismatch"
    ELSE IF savedVerifier = Null THEN "missingVerifier"
    ELSE "exchange"

\* the token-exchange request Auth.handleCallback sends
ExchangeRequest(c) ==
    [kind |-> "exchange", code |-> c.url.code, code_verifier |-> c.codeVerifier]

\* the fetch of the token endpoint failed, or its body was not JSON
NetworkFailure == [failed |-> TRUE]

\* the outcome of Auth.handleCallback once the token endpoint has answered
ExchangeOutcome(data) ==
    IF data = NetworkFailure THEN "networkError"
    ELSE IF data.error # Null THEN "exchangeError"
    ELSE IF data.access_token = Null THEN "noToken"
    ELSE "ok"

\* Auth.handleCallback that leaves the temporary OAuth values in place
storeTokenKeepsHandshake(c, data) ==
    [c EXCEPT !.accessToken = data.access_token,
              !.url = CleanUrl, !.octokitInstance = Null]

\* the end of Auth.handleCallback when a token was received
storeToken(c, data) ==
    [c EXCEPT !.accessToken = data.access_token,
              !.codeVerifier = Null, !.oauthState = Null,
              !.url = CleanUrl, !.octokitInstance = Null]

----------------------------------------------------------------------------
(* Application state: src/unnamed/part_000 (the App module) *)

\* App.resetState
resetState(c) ==
    [c EXCEPT !.user = None, !.repositories = <<>>, !.currentRepo = None,
              !.currentPath = <<>>, !.currentFile = None, !.contents = <<>>,
              !.fileHistory = <<>>, !.isModified = FALSE]

\* App.handleLogout that does nothing while the open document is modified
handleLogoutUnlessModified(c) ==
    IF c.isModified THEN c ELSE hideEditor(showLoginView(resetState(logout(c))))

\* App.handleLogout
handleLogout(c) == hideEditor(showLoginView(resetState(logout(c))))

\* the catch block of App.loadDashboard without its handleLogout
dashboardFailedStaysLoggedIn(c) ==
    showToast(hideLoading(Outcome(c, "dashboardFailed")), "error")

\* the catch block of App.loadDashboard
dashboardFailed(c) == handleLogout(showToast(hideLoading(Outcome(c, "dashboardFailed")), "error"))

\* App.loadDashboard up to its first await
loadDashboard(c) ==
    LET c1 == getOctokit(showLoading(c)) IN
    IF NotAuthenticated(c1) THEN dashboardFailed(c1)
    ELSE Await(c1, [kind |-> "getUser", auth |-> c1.octokitInstance])

\* App.loadDashboard after GitHubAPI.getUser has answered
dashboardUser(c, resp) ==
    IF resp.status # 200 THEN dashboardFailed(c)
    ELSE LET c1 == getOctokit([c EXCEPT !.user = resp.data]) IN
         IF NotAuthenticated(c1) THEN dashboardFailed(c1)
         ELSE Await(c1, [kind |-> "listRepos", auth |-> c1.octokitInstance])

\* App.loadDashboard after GitHubAPI.listRepositories has answered
dashboardRepos(c, resp) ==
    IF resp.status # 200 THEN dashboardFailed(c)
    ELSE hideLoading(showDashboardView([c EXCEPT !.repositories = resp.data]))

\* App.init after Auth.handleCallback returned false or threw
initUnlessCallback(c) ==
    IF isAuthenticated(c) THEN loadDashboard(c)
    ELSE showLoginView(hideLoading(c))

\* App.init that drops the stored token when the callback fails
initFailedCallbackLogsOut(c) ==
    LET c1 == showLoading([c EXCEPT !.phase = "running"])
        o == CallbackOutcome(c1.url, c1.oauthState, c1.codeVerifier)
    IN  IF o = "exchange"
        THEN Await([Outcome(c1, o) EXCEPT !.tokenRequests[c1.codeVerifier] = @ + 1],
                   ExchangeRequest(c1))
        ELSE IF o = "notCallback" THEN initUnlessCallback(Outcome(c1, o))
        ELSE initUnlessCallback(showToast(Outcome([c1 EXCEPT !.accessToken = Null], o),
                                          "error"))

\* App.init up to its first await
init(c) ==
    LET c1 == showLoading([c EXCEPT !.phase = "running"])
        o == CallbackOutcome(c1.url, c1.oauthState, c1.codeVerifier)
    IN  IF o = "exchange"
        THEN Await([Outcome(c1, o) EXCEPT !.tokenRequests[c1.codeVerifier] = @ + 1],
                   ExchangeRequest(c1))
        ELSE IF o = "notCallback" THEN initUnlessCallback(Outcome(c1, o))
        ELSE initUnlessCallback(showToast(Outcome(c1, o), "error"))

\* App.init after the token endpoint has answered Auth.handleCallback
initExchanged(c, data) ==
    LET o == ExchangeOutcome(data) IN
    IF o = "ok" THEN loadDashboard(storeToken(Outcome(c, o), data))
    ELSE initUnlessCallback(showToast(Outcome(c, o), "error"))

----------------------------------------------------------------------------
(* Responses of the external content API *)

\* statuses of a failed request: not found, conflict
ErrorStatuses == {404, 409}

Failure(status) == [status |-> status]
Failures == {Failure(st) : st \in ErrorStatuses}

UserResponses == {[status |-> 200, data |-> [login |-> "u"]]} \cup Failures

\* the repositories of the user, by full name (owner/name)
Repos == {"o/r1", "o/r2"}

\* what list-repositories-for-user may answer
RepoResponses ==
    {[status |-> 200, data |-> l] : l \in {<<>>, <<"o/r1">>, <<"o/r1", "o/r2">>}} \cup Failures

----------------------------------------------------------------------------
(* The content gateway as the handlers use it: src/js/github-api.js *)

\* atob(data.content): the stored bytes read as one character each; a
\* document written as UTF-8 comes back changed when it holds a character
\* outside ASCII
atob(text) == IF text = "é" THEN "Ã©" ELSE text

\* state.currentRepo for a full name owner/name
Repo(fullName) == [fullName |-> fullName]

\* GitHubAPI.createRepository(name, options)
RepositoryRequest(c, name) ==
    [kind |-> "createRepository", name |-> name, auth |-> c.octokitInstance]

\* GitHubAPI.getContents(owner, repo, path)
ContentsRequest(c, frame) ==
    [kind |-> "getContents", repo |-> c.currentRepo, path |-> c.currentPath,
     frame |-> frame, auth |-> c.octokitInstance]

\* GitHubAPI.getFileHistory(owner, repo, path)
HistoryRequest(c, path, frame) ==
    [kind |-> "getFileHistory", repo |-> c.currentRepo, path |-> path,
     frame |-> frame, auth |-> c.octokitInstance]

\* GitHubAPI.getFileContent(owner, repo, path, ref)
FileRequest(c, kind, path, ref, frame) ==
    [kind |-> kind, repo |-> c.currentRepo, path |-> path, ref |-> ref,
     frame |-> frame, auth |-> c.octokitInstance]

\* GitHubAPI.createOrUpdateFile(owner, repo, path, content, message, sha):
\* params.sha is set only when a sha was passed
WriteRequest(c, op, path, content, sha, name) ==
    [kind |-> "write", op |-> op, repo |-> c.currentRepo, path |-> path,
     content |-> content, sha |-> IF sha # Null THEN sha ELSE Null,
     name |-> name, auth |-> c.octokitInstance]

\* GitHubAPI.createFolder that writes the folder path itself
FolderRequestNoPlaceholder(c, folderPath, name) ==
    WriteRequest(c, "createFolder", folderPath, "", Null, name)

\* GitHubAPI.createFolder(owner, repo, folderPath): a .gitkeep file, no sha
FolderRequest(c, folderPath, name) ==
    WriteRequest(c, "createFolder", Join(folderPath, GitKeep), "", Null, name)

\* GitHubAPI.deleteFile(owner, repo, path, message, sha)
DeleteRequest(c, path, sha) ==
    [kind |-> "deleteFile", repo |-> c.currentRepo, path |-> path, sha |-> sha,
     auth |-> c.octokitInstance]

----------------------------------------------------------------------------
(* Handlers of the dashboard: src/unnamed/part_000 *)

\* what the caller of loadContents does once it has returned
afterLoadContents(c, frame) ==
    IF frame \in {"save", "refresh", "createRepo"} THEN showToast(hideLoading(c), "success") ELSE c

\* the outer catch of loadContents
loadContentsFailed(c, frame) == afterLoadContents(showToast(c, "error"), frame)

\* loadContents whose Gateway call does not look at the client it got
loadContentsUnchecked(c, frame) ==
    IF c.currentRepo = None THEN afterLoadContents(c, frame)
    ELSE LET c1 == getOctokit(c) IN Await(c1, ContentsRequest(c1, frame))

\* loadContents up to its await
loadContents(c, frame) ==
    IF c.currentRepo = None THEN afterLoadContents(c, frame)
    ELSE LET c1 == getOctokit(c) IN
         IF NotAuthenticated(c1) THEN loadContentsFailed(c1, frame)
         ELSE Await(c1, ContentsRequest(c1, frame))

\* loadContents after GitHubAPI.getContents has answered: the listing is
\* assigned before state.currentRepo.name is read for the breadcrumb
contentsLoaded(c, r, resp) ==
    IF resp.status \notin {200, 404} THEN loadContentsFailed(c, r.frame)
    ELSE LET l == IF resp.status = 200 /\ resp.array THEN resp.data ELSE <<>>
             c1 == [c EXCEPT !.contents = l]
         IN  IF c1.currentRepo = None THEN loadContentsFailed(c1, r.frame)
             ELSE afterLoadContents(c1, r.frame)

\* what the caller of loadFileHistory does once it has returned
afterLoadFileHistory(c, frame) ==
    CASE frame = "save" -> loadContents(c, "save")
      [] frame = "createFile" -> showToast(hideLoading(hideLoading(c)), "success")
      [] OTHER -> hideLoading(c)

\* loadFileHistory up to its await; its catch shows nothing
loadFileHistory(c, path, frame) ==
    IF c.currentRepo = None THEN afterLoadFileHistory(c, frame)
    ELSE LET c1 == getOctokit(c) IN
         IF NotAuthenticated(c1) THEN afterLoadFileHistory(c1, frame)
         ELSE Await(c1, HistoryRequest(c1, path, frame))

\* loadFileHistory after GitHubAPI.getFileHistory has answered
historyLoaded(c, r, resp) ==
    afterLoadFileHistory(IF resp.status = 200 THEN [c EXCEPT !.fileHistory = resp.data]
                         ELSE c, r.frame)

\* what the caller of handleFileSelect does once it has returned
afterFileSelect(c, frame) ==
    IF frame = "createFile" THEN showToast(hideLoading(c), "success") ELSE c

\* the catch of handleFileSelect
fileSelectFailed(c, frame) ==
    afterFileSelect(showToast(hideLoading(Outcome(c, "openFailed")), "error"), frame)

\* handleFileSelect up to its await; confirmed is the answer to confirm()
handleFileSelect(c, path, confirmed, frame) ==
    IF c.currentRepo = None THEN afterFileSelect(c, frame)
    ELSE IF c.isModified /\ c.currentFile # None /\ ~confirmed
         THEN afterFileSelect(Outcome(c, "declined"), frame)
    ELSE LET c1 == getOctokit(showLoading(c)) IN
         IF NotAuthenticated(c1) THEN fileSelectFailed(c1, frame)
         ELSE Await(c1, FileRequest(c1, "getFile", path, Null, frame))

\* handleFileSelect that leaves the modified flag alone
fileLoadedKeepsModified(c, r, resp) ==
    IF resp.status # 200 \/ resp.data.type # "file" THEN fileSelectFailed(c, r.frame)
    ELSE LET content == atob(resp.data.content)
             file == [path |-> resp.data.path, name |-> resp.data.name,
                      sha |-> resp.data.sha, content |-> content,
                      originalContent |-> content]
             c1 == showEditor([c EXCEPT !.currentFile = file], content)
         IN  loadFileHistory(Obtain(c1, r.path, resp.data.sha), r.path, r.frame)

\* handleFileSelect after GitHubAPI.getFileContent has answered
fileLoaded(c, r, resp) ==
    IF resp.status # 200 \/ resp.data.type # "file" THEN fileSelectFailed(c, r.frame)
    ELSE LET content == atob(resp.data.content)
             file == [path |-> resp.data.path, name |-> resp.data.name,
                      sha |-> resp.data.sha, content |-> content,
                      originalContent |-> content]
             c1 == showEditor([c EXCEPT !.currentFile = file, !.isModified = FALSE],
                              content)
         IN  loadFileHistory(Obtain(c1, r.path, resp.data.sha), r.path, r.frame)

\* handleEditorChange, run by the input event of the textarea
handleEditorChange(c) ==
    IF c.currentFile = None THEN c
    ELSE LET modified == c.editor # c.currentFile.originalContent IN
         IF modified = c.isModified THEN c
         ELSE IF modified THEN setEditorModified([c EXCEPT !.isModified = TRUE])
         ELSE setEditorSaved([c EXCEPT !.isModified = FALSE])

\* a catch of handleSaveFile that marks the document as saved
saveFailedClearsModified(c) ==
    showToast(hideLoading(Outcome([c EXCEPT !.isModified = FALSE], "saveFailed")), "error")

\* the catch of handleSaveFile
saveFailed(c) == showToast(hideLoading(Outcome(c, "saveFailed")), "error")

\* handleSaveFile up to its await: the content is read from the editor now
handleSaveFile(c) ==
    IF c.currentFile = None \/ c.currentRepo = None THEN c
    ELSE LET c1 == getOctokit(showLoading(c)) IN
         IF NotAuthenticated(c1) THEN saveFailed(c1)
         ELSE Await(c1, WriteRequest(c1, "save", c1.currentFile.path, c1.editor,
                                     c1.currentFile.sha, ""))

\* handleSaveFile after GitHubAPI.createOrUpdateFile has answered: the result
\* is written into whatever state.currentFile is now; with no document open
\* the assignment throws and the catch runs
saved(c, r, resp) ==
    IF resp.status # 200 THEN saveFailed(c)
    ELSE LET c0 == Obtain(c, r.path, resp.sha) IN
         IF c0.currentFile = None THEN saveFailed(c0)
         ELSE LET c1 == setEditorSaved(
                      [c0 EXCEPT !.currentFile.sha = resp.sha,
                                 !.currentFile.content = r.content,
                                 !.currentFile.originalContent = r.content,
                                 !.isModified = FALSE])
              IN  loadFileHistory(c1, c1.currentFile.path, "save")

\* a catch of handleVersionSelect that leaves the overlay
versionFailedKeepsLoading(c) == showToast(Outcome(c, "versionFailed"), "error")

\* the catch of handleVersionSelect
versionFailed(c) == showToast(hideLoading(Outcome(c, "versionFailed")), "error")

\* handleVersionSelect up to its await
handleVersionSelect(c, sha) ==
    IF c.currentFile = None \/ c.currentRepo = None THEN c
    ELSE LET c1 == getOctokit(showLoading(c)) IN
         IF NotAuthenticated(c1) THEN versionFailed(c1)
         ELSE Await(c1, FileRequest(c1, "getFileAtCommit", c1.currentFile.path, sha, "none"))

\* handleVersionSelect that takes the historical text as the baseline
versionLoadedMovesBaseline(c, r, resp) ==
    IF resp.status # 200 \/ resp.data.type # "file" THEN versionFailed(c)
    ELSE IF c.currentFile = None THEN versionFailed(c)
    ELSE LET content == atob(resp.data.content)
             c1 == showEditor([c EXCEPT !.currentFile.content = content,
                                        !.currentFile.originalContent = content],
                              content)
         IN  hideLoading([c1 EXCEPT !.isModified = FALSE])

\* handleVersionSelect after GitHubAPI.getFileAtCommit has answered
versionLoaded(c, r, resp) ==
    IF resp.status # 200 \/ resp.data.type # "file" THEN versionFailed(c)
    ELSE IF c.currentFile = None THEN versionFailed(c)
    ELSE LET content == atob(resp.data.content)
             modified == content # c.currentFile.originalContent
             c1 == showEditor([c EXCEPT !.currentFile.content = content], content)
             c2 == [c1 EXCEPT !.isModified = modified]
         IN  hideLoading(IF modified THEN setEditorModified(c2) ELSE c2)

\* the catch of handleDeleteFile
deleteFailed(c) == showToast(hideLoading(Outcome(c, "deleteFailed")), "error")

\* handleDeleteFile up to its await
handleDeleteFile(c, path, sha) ==
    IF c.currentRepo = None THEN c
    ELSE LET c1 == getOctokit(showLoading(c)) IN
         IF NotAuthenticated(c1) THEN deleteFailed(c1)
         ELSE Await(c1, DeleteRequest(c1, path, sha))

\* handleConfirmDelete: the delete button of the editor
handleConfirmDelete(c) ==
    IF c.currentFile = None \/ c.currentRepo = None THEN c
    ELSE handleDeleteFile(c, c.currentFile.path, c.currentFile.sha)

\* handleDeleteFile that closes the editor whatever was deleted
deletedClosesEditor(c, r, resp) ==
    IF resp.status # 200 THEN deleteFailed(c)
    ELSE showToast(hideLoading(hideEditor(
             [Obtain(c, r.path, Null) EXCEPT
                 !.contents = SelectSeq(@, LAMBDA item : item.path # r.path),
                 !.currentFile = None, !.isModified = FALSE])), "success")

\* handleDeleteFile after GitHubAPI.deleteFile has answered
deleted(c, r, resp) ==
    IF resp.status # 200 THEN deleteFailed(c)
    ELSE LET c1 == [Obtain(c, r.path, Null) EXCEPT
                       !.contents = SelectSeq(@, LAMBDA item : item.path # r.path)]
             c2 == IF c1.currentFile # None /\ c1.currentFile.path = r.path
                   THEN hideEditor([c1 EXCEPT !.currentFile = None, !.isModified = FALSE])
                   ELSE c1
         IN  showToast(hideLoading(c2), "success")

\* the catch of handleCreateFile and of handleCreateFolder
createFailed(c) == showToast(hideLoading(Outcome(c, "createFailed")), "error")

\* handleCreateFile that writes into the root whatever the current path is
handleCreateFileAtRoot(c, name) ==
    IF c.currentRepo = None THEN c
    ELSE LET c1 == getOctokit(showLoading(c)) IN
         IF NotAuthenticated(c1) THEN createFailed(c1)
         ELSE Await(c1, WriteRequest(c1, "createFile", <<name>>, Template, Null, name))

\* handleCreateFile up to its await
handleCreateFile(c, name) ==
    IF c.currentRepo = None THEN c
    ELSE LET c1 == getOctokit(showLoading(c)) IN
         IF NotAuthenticated(c1) THEN createFailed(c1)
         ELSE Await(c1, WriteRequest(c1, "createFile", Join(c1.currentPath, name),
                                     Template, Null, name))

\* handleCreateFile after GitHubAPI.createOrUpdateFile has answered: the entry
\* is appended to the listing and the new document is opened
fileCreated(c, r, resp, confirmed) ==
    IF resp.status # 200 THEN createFailed(c)
    ELSE LET c1 == [c EXCEPT
                       !.contents = Append(@, [name |-> r.name, path |-> r.path,
                                                type |-> "file", sha |-> resp.sha])]
         IN  handleFileSelect(c1, r.path, confirmed, "createFile")

\* handleCreateFolder up to its await
handleCreateFolder(c, name) ==
    IF c.currentRepo = None THEN c
    ELSE LET c1 == getOctokit(showLoading(c)) IN
         IF NotAuthenticated(c1) THEN createFailed(c1)
         ELSE Await(c1, FolderRequest(c1, Join(c1.currentPath, name), name))

\* handleCreateFolder after GitHubAPI.createFolder has answered
folderCreated(c, r, resp) ==
    IF resp.status # 200 THEN createFailed(c)
    ELSE showToast(hideLoading(
             [c EXCEPT !.contents = Append(@, [name |-> r.name,
                                               path |-> SubSeq(r.path, 1, Len(r.path) - 1),
                                               type |-> "dir", sha |-> Null])]),
             "success")

\* handleRefresh
handleRefresh(c) ==
    IF c.currentRepo = None THEN c ELSE loadContents(showLoading(c), "refresh")

\* handleRepoSelect; confirmed is the answer to confirm(), frame the caller
\* that goes on once it has returned
handleRepoSelect(c, fullName, confirmed, frame) ==
    IF c.isModified /\ ~confirmed THEN afterLoadContents(Outcome(c, "declined"), frame)
    ELSE loadContents(hideEditor([c EXCEPT !.currentRepo = Repo(fullName),
                                           !.currentPath = Root,
                                           !.currentFile = None,
                                           !.isModified = FALSE]), frame)

\* the catch of handleCreateRepo
createRepoFailed(c) == showToast(hideLoading(Outcome(c, "createRepoFailed")), "error")

\* handleCreateRepo up to its await
handleCreateRepo(c, name) ==
    LET c1 == getOctokit(showLoading(c)) IN
    IF NotAuthenticated(c1) THEN createRepoFailed(c1)
    ELSE Await(c1, RepositoryRequest(c1, name))

\* handleCreateRepo after GitHubAPI.createRepository has answered: the
\* repository is put in front of the list unless it is there, then selected
repoCreated(c, r, resp, confirmed) ==
    IF resp.status # 200 THEN createRepoFailed(c)
    ELSE LET fullName == resp.data.full_name
             known == \E i \in DOMAIN c.repositories : c.repositories[i] = fullName
             c1 == [c EXCEPT !.repositories = IF known THEN @ ELSE <<fullName>> \o @]
         IN  handleRepoSelect(c1, fullName, confirmed, "createRepo")

\* handleNavigate that does not ask
handleNavigateUnguarded(c, path, confirmed) ==
    loadContents(hideEditor([c EXCEPT !.currentPath = path,
                                      !.currentFile = None,
                                      !.isModified = FALSE]), "none")

\* handleNavigate; confirmed is the answer to confirm()
handleNavigate(c, path, confirmed) ==
    IF c.isModified /\ ~confirmed THEN Outcome(c, "declined")
    ELSE loadContents(hideEditor([c EXCEPT !.currentPath = path,
                                           !.currentFile = None,
                                           !.isModified = FALSE]), "none")

----------------------------------------------------------------------------
(* Responses of the content API to the dashboard *)

Ok(data) == [status |-> 200, data |-> data]

\* get-repository-content on a directory: an array, a single object, an error
ContentsResponses(r) ==
    {[status |-> 200, array |-> TRUE, data |-> l] : l \in Listings(r.path)}
    \cup {[status |-> 200, array |-> FALSE, data |-> <<>>]} \cup Failures

\* the blobs a file path may hold when it is read: a revision and its text
Blobs == {[sha |-> Sha(1), content |-> "x"], [sha |-> Sha(2), content |-> "y"]}

\* get-repository-content on a file path: the file at some revision,
\* something that is not a file, an error
FileResponses(r) ==
    {Ok([type |-> "file", path |-> r.path, name |-> BaseName(r.path),
         sha |-> b.sha, content |-> b.content]) : b \in Blobs}
    \cup {Ok([type |-> "dir"]), Failure(404)}

\* list-commits as getFileHistory maps it
HistoryResponses == {Ok(<<>>), Ok(<<Commit(2), Commit(1)>>), Failure(404)}

\* create-or-update-file-contents: result.content.sha
WriteResponses == {[status |-> 200, sha |-> sha] : sha \in Shas} \cup {Failure(409)}

\* create-repository-for-the-authenticated-user: the repository, or 422 when
\* the name is taken
RepositoryResponses(r) ==
    {Ok([full_name |-> NewRepoFullName]), Failure(422)}

\* delete-file
DeleteResponses == {[status |-> 200], Failure(409)}

----------------------------------------------------------------------------
(* The state after construction: an empty session, the App module loaded *)

\* the memory of a freshly loaded page
FreshPage(c) ==
    [resetState(c) EXCEPT !.octokitInstance = Null, !.phase = "constructed",
                          !.view = "none", !.editor = "", !.editorShown = FALSE,
                          !.saveDisabled = TRUE, !.loading = FALSE,
                          !.inflight = EmptyBag, !.obtained = NothingObtained]

Init ==
    /\ accessToken = Null
    /\ codeVerifier = Null
    /\ oauthState = Null
    /\ octokitInstance = Null
    /\ url = CleanUrl
    /\ phase = "constructed"
    /\ view = "none"
    /\ user = None
    /\ repositories = <<>>
    /\ currentRepo = None
    /\ currentPath = <<>>
    /\ currentFile = None
    /\ contents = <<>>
    /\ fileHistory = <<>>
    /\ isModified = FALSE
    /\ editor = ""
    /\ editorShown = FALSE
    /\ saveDisabled = TRUE
    /\ loading = FALSE
    /\ inflight = EmptyBag
    /\ handshakes = 0
    /\ lastHandshake = 0
    /\ pageLoads = 0
    /\ tokenRequests = [v \in VerifierValues |-> 0]
    /\ intents = 0
    /\ obtained = NothingObtained
    /\ last = [op |-> "construct", out |-> "ok", toasts |-> <<>>, req |-> None, resp |-> None]
    /\ worker = [pc |-> "idle"]

----------------------------------------------------------------------------
(* Actions of the session *)

\* the browser loads the page with a url: the redirect back from GitHub, a
\* reload, or a link somebody made.  sessionStorage survives, memory does not.
PageLoad ==
    \E u \in UrlParams :
        /\ pageLoads < MaxPageLoads
        /\ Becomes([FreshPage(Begin("pageLoad")) EXCEPT !.url = u, !.pageLoads = @ + 1])

\* main.js calls App.init once the page is loaded
AppInit ==
    /\ phase = "constructed"
    /\ Becomes(init(Begin("init")))

\* the token endpoint answers the request of Auth.handleCallback
ExchangeResponds ==
    \E r \in Outstanding, data \in ExchangeResponses \cup {NetworkFailure} :
        /\ r.kind = "exchange"
        /\ Becomes(initExchanged(BeginResolve("exchanged", r, data), data))

\* the login button: Auth.initiateLogin up to its await of the digest
InitiateLogin ==
    /\ phase = "running"
    /\ view = "login"
    /\ handshakes < MaxLogins
    /\ CanIssue
    /\ Becomes(Await([Begin("initiateLogin") EXCEPT !.handshakes = @ + 1],
                     [kind |-> "digest", id |-> handshakes + 1]))

\* the digest is there: Auth.initiateLogin persists the pair and redirects
LoginPersists ==
    \E r \in Outstanding :
        /\ r.kind = "digest"
        /\ Becomes(persistHandshake(BeginResolve("persistHandshake", r, None), r.id))

\* the logout button; the step records the session it was pressed in and
\* whether the open document was modified
Logout ==
    /\ phase = "running"
    /\ Becomes(handleLogout([Begin("logout") EXCEPT
                                !.last.req = [token |-> accessToken,
                                              verifier |-> codeVerifier,
                                              state |-> oauthState,
                                              modified |-> isModified]]))

GetUserResponds ==
    \E r \in Outstanding, resp \in UserResponses :
        /\ r.kind = "getUser"
        /\ Becomes(dashboardUser(BeginResolve("dashboardUser", r, resp), resp))

ListReposResponds ==
    \E r \in Outstanding, resp \in RepoResponses :
        /\ r.kind = "listRepos"
        /\ Becomes(dashboardRepos(BeginResolve("dashboardRepos", r, resp), resp))

NextAuth ==
    \/ PageLoad
    \/ AppInit
    \/ ExchangeResponds
    \/ InitiateLogin
    \/ LoginPersists
    \/ Logout
    \/ GetUserResponds
    \/ ListReposResponds

SpecAuth == Init /\ [][NextAuth]_vars

----------------------------------------------------------------------------
(* The dashboard: the user's intents and the responses of the content API *)

\* number of entries a listing grows to by optimistic appends
MaxEntries == 4

\* the dashboard after a login: the user and the repositories are loaded,
\* no repository is selected
Dashboard ==
    /\ accessToken = <<"token", 1>>
    /\ codeVerifier = Null
    /\ oauthState = Null
    /\ octokitInstance = <<"token", 1>>
    /\ url = CleanUrl
    /\ phase = "running"
    /\ view = "dashboard"
    /\ user = [login |-> "u"]
    /\ repositories = <<"o/r1">>
    /\ loading = FALSE
    /\ inflight = EmptyBag
    /\ handshakes = 1
    /\ lastHandshake = 1
    /\ pageLoads = 1
    /\ tokenRequests = [v \in VerifierValues |-> IF v = Verifier(1) THEN 1 ELSE 0]
    /\ worker = [pc |-> "idle"]

\* nothing is selected yet
NothingSelected ==
    /\ currentRepo = None
    /\ currentPath = Root
    /\ currentFile = None
    /\ contents = <<>>
    /\ fileHistory = <<>>
    /\ isModified = FALSE
    /\ editor = ""
    /\ editorShown = FALSE
    /\ saveDisabled = TRUE
    /\ obtained = NothingObtained
    /\ last = [op |-> "dashboardRepos", out |-> "ok", toasts |-> <<>>,
               req |-> None, resp |-> None]

\* a repository was selected, its root was listed and the document a.md was
\* opened: the state handleRepoSelect and handleFileSelect leave
DocumentOpen ==
    /\ currentRepo = Repo("o/r1")
    /\ currentPath = Root
    /\ currentFile = [path |-> <<"a.md">>, name |-> "a.md", sha |-> Sha(1),
                      content |-> "x", originalContent |-> "x"]
    /\ contents \in {l \in Listings(Root) : Len(l) > 1}
    /\ fileHistory = <<Commit(2), Commit(1)>>
    /\ isModified = FALSE
    /\ editor = "x"
    /\ editorShown = TRUE
    /\ saveDisabled = TRUE
    /\ obtained = [p \in {<<"a.md">>} |-> Sha(1)]
    /\ last = [op |-> "historyLoaded", out |-> "ok", toasts |-> <<>>,
               req |-> None, resp |-> None]

InitApp == Dashboard /\ intents = 0 /\ (NothingSelected \/ DocumentOpen)

\* the dashboard is shown and takes another intent
OnDashboard == phase = "running" /\ view = "dashboard" /\ intents < MaxIntents /\ CanIssue

\* the configuration at the start of the handler of a user intent
Intent(op) == [Begin(op) EXCEPT !.intents = @ + 1]

\* the same, the step keeping what the user chose and answered
IntentOn(op, input) == [Intent(op) EXCEPT !.last.req = input]

\* the answers confirm() may get, when it is asked
Confirms(asked) == IF asked THEN BOOLEAN ELSE {TRUE}

Range(seq) == {seq[i] : i \in DOMAIN seq}

\* UI.renderFileList: the items of the file list, in no order
renderFileList(list) == {item \in Range(list) : item.name # GitKeep}

\* the items whose click opens a document and that have a delete button
Documents ==
    {item \in renderFileList(contents) : item.type = "file" /\ EndsWithMd(item.name)}

\* where the file list and the breadcrumb lead
NavigateTargets ==
    {item.path : item \in {i \in renderFileList(contents) : i.type = "dir"}}
    \cup (IF currentRepo = None THEN {}
          ELSE {SubSeq(currentPath, 1, k) :
                    k \in 0..(IF currentPath = Root THEN 0 ELSE Len(currentPath) - 1)})

\* the repository select changes
SelectRepo ==
    \E fullName \in Range(repositories), confirmed \in Confirms(isModified) :
        /\ OnDashboard
        /\ Becomes(handleRepoSelect(
               IntentOn("repoSelect", [fullName |-> fullName, confirmed |-> confirmed]),
               fullName, confirmed, "none"))

\* a folder of the file list or an item of the breadcrumb is clicked
Navigate ==
    \E path \in NavigateTargets, confirmed \in Confirms(isModified) :
        /\ OnDashboard
        /\ Becomes(handleNavigate(
               IntentOn("navigate", [path |-> path, confirmed |-> confirmed]),
               path, confirmed))

\* a document of the file list is clicked
OpenFile ==
    \E item \in Documents, confirmed \in Confirms(isModified /\ currentFile # None) :
        /\ OnDashboard
        /\ Becomes(handleFileSelect(
               IntentOn("fileSelect", [path |-> item.path, confirmed |-> confirmed]),
               item.path, confirmed, "fileSelect"))

\* the user types: the textarea holds another text and its input event fires
EditBuffer ==
    \E text \in Texts \ {editor} :
        /\ phase = "running" /\ view = "dashboard" /\ editorShown
        /\ Becomes(handleEditorChange([Begin("edit") EXCEPT !.editor = text]))

\* the save button, then Save in the commit-message dialog
Save ==
    /\ OnDashboard /\ editorShown /\ ~saveDisabled
    /\ Becomes(handleSaveFile(Intent("save")))

\* an entry of the version menu is clicked
SelectVersion ==
    \E sha \in Range(fileHistory) :
        /\ OnDashboard /\ editorShown
        /\ Becomes(handleVersionSelect(Intent("versionSelect"), sha))

\* the trash button of a document in the file list, then Delete
DeleteFromList ==
    \E item \in Documents :
        /\ OnDashboard
        /\ Becomes(handleDeleteFile(
               IntentOn("deleteFile", [path |-> item.path, sha |-> item.sha]),
               item.path, item.sha))

\* the delete button of the editor, then Delete
DeleteOpen ==
    /\ OnDashboard /\ editorShown
    /\ Becomes(handleConfirmDelete(Intent("confirmDelete")))

\* the create-document dialog
CreateFile ==
    /\ OnDashboard /\ Len(contents) < MaxEntries
    /\ Becomes(handleCreateFile(Intent("createFile"), NewFileName))

\* the create-folder dialog
CreateFolder ==
    /\ OnDashboard /\ Len(contents) < MaxEntries /\ Len(currentPath) < MaxDepth
    /\ Becomes(handleCreateFolder(Intent("createFolder"), NewFolderName))

\* the create-repository dialog
CreateRepo ==
    /\ OnDashboard /\ NewRepoFullName \notin Range(repositories)
    /\ Becomes(handleCreateRepo(Intent("createRepo"), NewRepoName))

\* the refresh button
Refresh ==
    /\ OnDashboard
    /\ Becomes(handleRefresh(Intent("refresh")))

ContentsResponds ==
    \E r \in Outstanding :
        /\ r.kind = "getContents"
        /\ \E resp \in ContentsResponses(r) :
               Becomes(contentsLoaded(BeginResolve("contentsLoaded", r, resp), r, resp))

HistoryResponds ==
    \E r \in Outstanding, resp \in HistoryResponses :
        /\ r.kind = "getFileHistory"
        /\ Becomes(historyLoaded(BeginResolve("historyLoaded", r, resp), r, resp))

FileResponds ==
    \E r \in Outstanding :
        /\ r.kind = "getFile"
        /\ \E resp \in FileResponses(r) :
               Becomes(fileLoaded(BeginResolve("fileLoaded", r, resp), r, resp))

VersionResponds ==
    \E r \in Outstanding :
        /\ r.kind = "getFileAtCommit"
        /\ \E resp \in FileResponses(r) :
               Becomes(versionLoaded(BeginResolve("versionLoaded", r, resp), r, resp))

SaveResponds ==
    \E r \in Outstanding, resp \in WriteResponses :
        /\ r.kind = "write" /\ r.op = "save"
        /\ Becomes(saved(BeginResolve("saved", r, resp), r, resp))

CreateFileResponds ==
    \E r \in Outstanding, resp \in WriteResponses :
        /\ r.kind = "write" /\ r.op = "createFile"
        /\ \E confirmed \in Confirms(resp.status = 200 /\ isModified /\ currentFile # None) :
               Becomes(fileCreated(BeginResolve("fileCreated", r, resp), r, resp, confirmed))

CreateFolderResponds ==
    \E r \in Outstanding, resp \in WriteResponses :
        /\ r.kind = "write" /\ r.op = "createFolder"
        /\ Becomes(folderCreated(BeginResolve("folderCreated", r, resp), r, resp))

CreateRepoResponds ==
    \E r \in Outstanding :
        /\ r.kind = "createRepository"
        /\ \E resp \in RepositoryResponses(r) :
           \E confirmed \in Confirms(resp.status = 200 /\ isModified) :
               Becomes(repoCreated(BeginResolve("repoCreated", r, resp), r, resp, confirmed))

DeleteResponds ==
    \E r \in Outstanding, resp \in DeleteResponses :
        /\ r.kind = "deleteFile"
        /\ Becomes(deleted(BeginResolve("deleted", r, resp), r, resp))

Next ==
    \/ SelectRepo
    \/ Navigate
    \/ OpenFile
    \/ EditBuffer
    \/ Save
    \/ SelectVersion
    \/ DeleteFromList
    \/ DeleteOpen
    \/ CreateFile
    \/ CreateFolder
    \/ Refresh
    \/ CreateRepo
    \/ Logout
    \/ ContentsResponds
    \/ HistoryResponds
    \/ FileResponds
    \/ VersionResponds
    \/ SaveResponds
    \/ CreateFileResponds
    \/ CreateFolderResponds
    \/ CreateRepoResponds
    \/ DeleteResponds

Spec == InitApp /\ [][Next]_vars

\* a request to the content API is answered, with a result or an error
Responds ==
    \/ ContentsResponds
    \/ HistoryResponds
    \/ FileResponds
    \/ VersionResponds
    \/ SaveResponds
    \/ CreateFileResponds
    \/ CreateFolderResponds
    \/ CreateRepoResponds
    \/ DeleteResponds

\* the dashboard with LiveIntents intents to come
InitLive ==
    Dashboard /\ intents = MaxIntents - LiveIntents /\ (NothingSelected \/ DocumentOpen)

\* the dashboard where every request that is outstanding gets its answer:
\* a promise of the API client settles, and its continuation then runs
SpecLive == InitLive /\ [][Next]_vars /\ WF_vars(Responds)

----------------------------------------------------------------------------
(* The token-exchange proxy: src/worker/oauth-proxy.js *)

\* an origin is the sequence of the pieces of its text, so that one origin
\* can be the beginning of another; no Origin header is null
PagesOrigin == <<"https://jeyabbalas.github.io">>
ALLOWED_ORIGINS == {PagesOrigin}
GITHUB_TOKEN_URL == "https://github.com/login/oauth/access_token"

\* String.prototype.startsWith
startsWith(text, prefix) ==
    Len(text) >= Len(prefix) /\ SubSeq(text, 1, Len(prefix)) = prefix

\* the Origin headers a request may carry: none, the configured origin, two
\* origins whose text begins with it, a foreign origin
Origins ==
    {Null, PagesOrigin, Append(PagesOrigin, ".evil.example"),
     Append(PagesOrigin, ":8443"), <<"https://evil.example">>}

Methods == {"OPTIONS", "POST", "GET", "PUT"}

\* a body that is JSON: each field is there or not
JsonBodies ==
    [code : {Null, <<"code", 1>>}, client_id : {Null, <<"client", 1>>},
     code_verifier : {Null, Verifier(1)}, redirect_uri : {Null, <<"redirect">>}]

\* a body that request.json() cannot parse
Malformed == [malformed |-> TRUE]

ProxyRequests ==
    [method : Methods, origin : Origins, body : JsonBodies \cup {Malformed}]

\* env.CLIENT_SECRET: not configured, configured
Secrets == {Null, <<"secret">>}

\* what the token endpoint answers: a token, an error, something fetch or
\* json() throws on
GitHubAnswers ==
    {[access_token |-> <<"token", 1>>, error |-> Null],
     [access_token |-> Null, error |-> <<"bad_verification_code">>],
     [unreadable |-> TRUE]}

\* no headers
NoHeaders == <<>>

JsonContentType == "Content-Type" :> "application/json"

CORSHeaderNames ==
    {"Access-Control-Allow-Origin", "Access-Control-Allow-Methods",
     "Access-Control-Allow-Headers", "Access-Control-Max-Age"}

\* isOriginAllowed
isOriginAllowed(origin) ==
    IF origin = Null THEN FALSE
    ELSE \E allowed \in ALLOWED_ORIGINS : startsWith(origin, allowed)

\* getCORSHeaders
getCORSHeaders(request) ==
    IF isOriginAllowed(request.origin)
    THEN ("Access-Control-Allow-Origin" :> request.origin)
         @@ ("Access-Control-Allow-Methods" :> "POST, OPTIONS")
         @@ ("Access-Control-Allow-Headers" :> "Content-Type")
         @@ ("Access-Control-Max-Age" :> "86400")
    ELSE NoHeaders

\* new Response(body, {status, headers}); the text of a message is a
\* sequence, as every value that is compared with a secret or with null
Response(status, headers, body) == [status |-> status, headers |-> headers, body |-> body]

\* handleCORS
handleCORS(request) ==
    IF ~isOriginAllowed(request.origin) THEN Response(403, NoHeaders, Null)
    ELSE Response(204, getCORSHeaders(request), Null)

\* the catch of fetch
proxyFailed(request) ==
    Response(500, JsonContentType @@ getCORSHeaders(request),
             [error |-> <<"Internal server error">>])

\* the request fetch sends to the token endpoint: the secret of the
\* environment is added, code_verifier only when the body has one
GitHubRequest(body, clientSecret) ==
    [url |-> GITHUB_TOKEN_URL, method |-> "POST",
     params |-> [client_id |-> body.client_id, client_secret |-> clientSecret,
                 code |-> body.code, redirect_uri |-> body.redirect_uri]
                @@ (IF body.code_verifier # Null
                    THEN "code_verifier" :> body.code_verifier ELSE <<>>)]

\* the worker has no request
Idle == [pc |-> "idle"]

\* the worker has answered; upstream are the requests it sent to GitHub
Answered(request, response, upstream) ==
    [pc |-> "answered", request |-> request, response |-> response,
     upstream |-> upstream]

\* fetch that forwards a body without looking for code and client_id
fetchForwardsIncomplete(request, env) ==
    IF request.method = "OPTIONS" THEN Answered(request, handleCORS(request), <<>>)
    ELSE IF request.method # "POST"
    THEN Answered(request,
                  Response(405, JsonContentType @@ getCORSHeaders(request),
                           [error |-> <<"Method not allowed">>]), <<>>)
    ELSE IF ~isOriginAllowed(request.origin)
    THEN Answered(request,
                  Response(403, JsonContentType, [error |-> <<"Origin not allowed">>]), <<>>)
    ELSE IF env.CLIENT_SECRET = Null
    THEN Answered(request,
                  Response(500, JsonContentType @@ getCORSHeaders(request),
                           [error |-> <<"Server configuration error">>]), <<>>)
    ELSE IF request.body = Malformed
    THEN Answered(request, proxyFailed(request), <<>>)
    ELSE [pc |-> "awaiting", request |-> request,
          upstream |-> <<GitHubRequest(request.body, env.CLIENT_SECRET)>>]

\* fetch(request, env) up to its return or to its await of the token endpoint
fetch(request, env) ==
    IF request.method = "OPTIONS" THEN Answered(request, handleCORS(request), <<>>)
    ELSE IF request.method # "POST"
    THEN Answered(request,
                  Response(405, JsonContentType @@ getCORSHeaders(request),
                           [error |-> <<"Method not allowed">>]), <<>>)
    ELSE IF ~isOriginAllowed(request.origin)
    THEN Answered(request,
                  Response(403, JsonContentType, [error |-> <<"Origin not allowed">>]), <<>>)
    ELSE IF env.CLIENT_SECRET = Null
    THEN Answered(request,
                  Response(500, JsonContentType @@ getCORSHeaders(request),
                           [error |-> <<"Server configuration error">>]), <<>>)
    ELSE IF request.body = Malformed
    THEN Answered(request, proxyFailed(request), <<>>)
    ELSE IF request.body.code = Null \/ request.body.client_id = Null
    THEN Answered(request,
                  Response(400, JsonContentType @@ getCORSHeaders(request),
                           [error |-> <<"Missing required fields">>]), <<>>)
    ELSE [pc |-> "awaiting", request |-> request,
          upstream |-> <<GitHubRequest(request.body, env.CLIENT_SECRET)>>]

\* fetch after the token endpoint has answered
githubAnswered(w, githubData) ==
    IF githubData = [unreadable |-> TRUE]
    THEN Answered(w.request, proxyFailed(w.request), w.upstream)
    ELSE IF githubData.error # Null
    THEN Answered(w.request,
                  Response(400, JsonContentType @@ getCORSHeaders(w.request),
                           [error |-> githubData.error]), w.upstream)
    ELSE Answered(w.request,
                  Response(200, JsonContentType @@ getCORSHeaders(w.request),
                           githubData), w.upstream)

\* the page is not loaded; the worker waits for a request
InitProxy == Init /\ worker = Idle

\* a request reaches the worker; the environment it runs in is kept with
\* what it did
Receive ==
    \E request \in ProxyRequests, secret \in Secrets :
        /\ worker = Idle
        /\ LET env == [CLIENT_SECRET |-> secret]
           IN  Becomes([Cfg EXCEPT !.worker = [env |-> env] @@ fetch(request, env)])

\* the token endpoint answers the worker
GitHubResponds ==
    \E githubData \in GitHubAnswers :
        /\ worker.pc = "awaiting"
        /\ Becomes([Cfg EXCEPT !.worker =
                        [env |-> worker.env] @@ githubAnswered(worker, githubData)])

NextProxy == Receive \/ GitHubResponds

SpecProxy == InitProxy /\ [][NextProxy]_vars

----------------------------------------------------------------------------
(* Claims about the open document, checked under Spec *)

\* C1 as stated: in every reachable state with an open document, the modified
\* flag is true exactly when the content of the editor differs from the
\* document's originalContent, also while a save or a load is in flight.
C1_DirtyIffDiffers ==
    currentFile # None => (isModified <=> editor # currentFile.originalContent)

\* C2 as stated: once the write of a save of the open document has succeeded,
\* the document's sha is the one the write returned, its originalContent is
\* the content that was saved, the editor holds the originalContent and the
\* modified flag is false.
C2_SaveCompletes ==
    (/\ last.op = "saved" /\ last.resp.status = 200
     /\ currentFile # None /\ currentFile.path = last.req.path)
    => /\ currentFile.sha = last.resp.sha
       /\ currentFile.originalContent = last.req.content
       /\ editor = currentFile.originalContent
       /\ ~isModified

\* the step resolves the write of a save with Conflict
SaveConflict == last'.op = "saved" /\ last'.resp.status = 409

\* C3: when the write of a save is rejected with Conflict, the open document
\* (path, sha, content, originalContent), the editor and the modified flag are
\* what they were, so a modified document stays modified, and an error toast
\* is shown.
C3_ConflictLeavesDocument ==
    [][SaveConflict
        => /\ currentFile' = currentFile
           /\ editor' = editor
           /\ isModified' = isModified
           /\ last'.out = "saveFailed"
           /\ last'.toasts = <<"error">>]_vars

\* the save of a modified document was rejected with Conflict
C3_Witness ==
    /\ last.op = "saved" /\ last.resp.status = 409
    /\ currentFile # None /\ currentFile.path = last.req.path
    /\ isModified /\ editor # currentFile.originalContent
    /\ ~loading

\* the write requests the step sends
WritesSent ==
    {r \in BagToSet(inflight') :
        r.kind = "write" /\ CopiesIn(r, inflight') > CopiesIn(r, inflight)}

\* C4 as stated: a write request sent by a save carries the revision obtained
\* last for the path of the open document (by its load or by its last
\* successful save), also after a historical version was shown; the write
\* requests of handleCreateFile and handleCreateFolder carry no sha.
C4_SaveCarriesObtainedRevision ==
    [][\A r \in WritesSent :
          IF r.op = "save" THEN r.sha = ObtainedFor(Cfg, r.path)
          ELSE r.sha = Null]_vars

----------------------------------------------------------------------------
(* Claims about the transitions of the dashboard, checked under Spec *)

\* the requests the step sends
RequestsSent ==
    {r \in BagToSet(inflight') : CopiesIn(r, inflight') > CopiesIn(r, inflight)}

\* the step is the handler of a guarded intent, run while the open document
\* is modified, and the user answered no to confirm()
DeclinedStep ==
    /\ last'.op \in {"repoSelect", "navigate", "fileSelect"}
    /\ ~last'.req.confirmed
    /\ isModified /\ currentFile # None

\* C11: when the open document is modified and the user answers no,
\* handleRepoSelect, handleNavigate and handleFileSelect leave the selected
\* repository, the current path, the open document, the editor, the listing
\* and the modified flag as they were and send no request.
C11_DeclineChangesNothing ==
    [][DeclinedStep
        => /\ UNCHANGED <<currentRepo, currentPath, currentFile, editor, contents,
                         isModified, fileHistory>>
           /\ RequestsSent = {}]_vars

\* the user declined to leave a modified document by opening another one
\* while a request was outstanding
C11_Witness ==
    /\ last.op = "fileSelect" /\ ~last.req.confirmed
    /\ isModified /\ currentFile # None /\ currentFile.path # last.req.path
    /\ editor # currentFile.originalContent
    /\ Outstanding # {}

\* the step is handleRepoSelect going ahead: nothing modified, or confirmed
RepoSelectProceeds ==
    /\ last'.op = "repoSelect"
    /\ (~isModified \/ last'.req.confirmed)

\* C12 as stated: when handleRepoSelect goes ahead, the current path is the
\* root, no document is open, the modified flag is false, the loaded history
\* is discarded and a listing of the root of the new repository is requested.
C12_RepoSelectResets ==
    [][RepoSelectProceeds
        => /\ currentRepo' = Repo(last'.req.fullName)
           /\ currentPath' = Root
           /\ currentFile' = None
           /\ ~isModified'
           /\ fileHistory' = <<>>
           /\ \E r \in RequestsSent :
                  r.kind = "getContents" /\ r.repo = Repo(last'.req.fullName)
                  /\ r.path = Root]_vars

\* the application state the transitions work on
AppState == <<currentRepo, currentPath, currentFile, contents, fileHistory, isModified>>

\* the step starts a transition by sending a request of the content gateway
TransitionStarts ==
    /\ intents' = intents + 1
    /\ last'.op \in {"repoSelect", "navigate", "fileSelect", "save", "deleteFile",
                     "confirmDelete", "createFile", "createFolder", "versionSelect"}
    /\ RequestsSent # {}

\* the step resolves a request with an error, other than a listing that was
\* not found and other than a history that could not be loaded
RequestFails ==
    /\ last'.op \in {"contentsLoaded", "fileLoaded", "saved", "deleted",
                     "fileCreated", "folderCreated", "versionLoaded"}
    /\ last'.resp.status # 200
    /\ ~(last'.op = "contentsLoaded" /\ last'.resp.status = 404)

\* C13 as stated: when a request of handleRepoSelect, handleNavigate,
\* handleFileSelect, handleSaveFile, handleDeleteFile, handleCreateFile,
\* handleCreateFolder or handleVersionSelect fails, an error toast is shown
\* and the application state is the state before the transition started:
\* neither the step that sent the request nor the step that handled the
\* failure has changed it.
C13_AllOrNothing ==
    [][/\ TransitionStarts => AppState' = AppState
       /\ RequestFails => AppState' = AppState /\ "error" \in Range(last'.toasts)]_vars

\* the step resolves the request of handleDeleteFile
DeleteSucceeds == last'.op = "deleted" /\ last'.resp.status = 200
DeleteFails == last'.op = "deleted" /\ last'.resp.status # 200

\* C14: after a delete has succeeded no entry of the listing has the deleted
\* path and the other entries are kept; when the open document has that path
\* it is closed and the modified flag is false, otherwise the open document,
\* the editor and the modified flag are as they were.  After a delete has
\* failed the listing and the open document are as they were.
C14_DeleteUpdatesListingAndDocument ==
    [][/\ DeleteSucceeds
          => /\ contents' = SelectSeq(contents, LAMBDA item : item.path # last'.req.path)
             /\ \A item \in Range(contents') : item.path # last'.req.path
             /\ IF currentFile # None /\ currentFile.path = last'.req.path
                THEN currentFile' = None /\ ~isModified'
                ELSE UNCHANGED <<currentFile, editor, isModified>>
       /\ DeleteFails
          => /\ UNCHANGED <<contents, currentFile, editor, isModified>>
             /\ last'.toasts = <<"error">>]_vars

\* another document was deleted while a modified document is open
C14_Witness ==
    /\ last.op = "deleted" /\ last.resp.status = 200
    /\ currentFile # None /\ currentFile.path # last.req.path
    /\ isModified /\ editor # currentFile.originalContent
    /\ contents # <<>>

\* the delete requests the step sends
DeletesSent == {r \in RequestsSent : r.kind = "deleteFile"}

\* C15 as stated, for the open document: a delete request for the path of
\* the open document, from the editor or from the file list, carries the
\* sha of the open document, which is the revision obtained last for that
\* path by its load or its save.
C15_DeleteCarriesCurrentRevision ==
    [][\A r \in DeletesSent :
          (currentFile # None /\ currentFile.path = r.path)
          => r.sha = currentFile.sha /\ r.sha = ObtainedFor(Cfg, r.path)]_vars

\* the step resolves the read of handleFileSelect with a file
OpenSucceeds ==
    /\ last'.op = "fileLoaded"
    /\ last'.resp.status = 200 /\ last'.resp.data.type = "file"

\* the step resolves the history request that follows an open with a failure
OpenHistoryFails ==
    /\ last'.op = "historyLoaded"
    /\ last'.req.frame \in {"fileSelect", "createFile"}
    /\ last'.resp.status # 200

\* C16: after the read of handleFileSelect has succeeded the open document
\* has the path and the sha that were loaded, its content and its baseline
\* are the loaded text, the editor shows that text and the modified flag is
\* false; a failure of the history request that follows leaves the open
\* document, the editor and the modified flag as they were, ends the
\* loading overlay and shows no error.
C16_OpenLoadsDocument ==
    [][/\ OpenSucceeds
          => /\ currentFile' # None
             /\ currentFile'.path = last'.req.path
             /\ currentFile'.path = last'.resp.data.path
             /\ currentFile'.sha = last'.resp.data.sha
             /\ currentFile'.content = atob(last'.resp.data.content)
             /\ currentFile'.originalContent = currentFile'.content
             /\ editor' = currentFile'.content
             /\ editorShown' /\ ~isModified'
       /\ OpenHistoryFails
          => /\ UNCHANGED <<currentFile, editor, editorShown, isModified>>
             /\ "error" \notin Range(last'.toasts)
             /\ last'.out # "openFailed"
             /\ ~loading']_vars

\* the history request of the document just opened has failed
C16_Witness ==
    /\ last.op = "historyLoaded" /\ last.resp # None /\ last.resp.status # 200
    /\ last.req.frame = "fileSelect"
    /\ currentFile # None /\ currentFile.path = last.req.path
    /\ currentFile.path = <<"b.md">>
    /\ editorShown /\ editor = currentFile.originalContent /\ ~isModified

\* the step resolves the read of handleVersionSelect with a file while a
\* document is open
VersionSucceeds ==
    /\ last'.op = "versionLoaded"
    /\ last'.resp.status = 200 /\ last'.resp.data.type = "file"
    /\ currentFile # None

\* C17: after the read of handleVersionSelect has succeeded the content of
\* the open document and the editor are the text at that commit, the path,
\* the sha and the baseline of the open document are as they were, and the
\* modified flag is true exactly when that text differs from the baseline.
C17_VersionReplacesWorkingContent ==
    [][VersionSucceeds
       => /\ currentFile' # None
          /\ currentFile'.content = atob(last'.resp.data.content)
          /\ editor' = currentFile'.content
          /\ currentFile'.path = currentFile.path
          /\ currentFile'.name = currentFile.name
          /\ currentFile'.sha = currentFile.sha
          /\ currentFile'.originalContent = currentFile.originalContent
          /\ isModified' <=> (atob(last'.resp.data.content) # currentFile.originalContent)]_vars

\* a historical text that differs from the baseline is shown
C17_Witness ==
    /\ last.op = "versionLoaded" /\ last.resp.status = 200
    /\ last.resp.data.type = "file"
    /\ currentFile # None
    /\ editor = atob(last.resp.data.content)
    /\ editor # currentFile.originalContent
    /\ isModified

\* the write requests the step sends
WritesIssued == {r \in RequestsSent : r.kind = "write"}

\* the requests the step adds to those in flight, counted with multiplicity
NumberSent == BagCardinality(inflight') - BagCardinality(inflight)

\* the step is a press of Create in the new-document dialog
CreateFileStarts == last'.op = "createFile" /\ currentRepo # None

\* C18: handleCreateFile sends one write, without sha, at the path joined
\* from the current path and the name (the name alone at the root); after
\* the write has succeeded the listing is the listing before with exactly
\* one entry appended, a file with that name, that path and the sha the
\* write returned; after it has failed the listing is as it was.
C18_CreateFileAppendsEntry ==
    [][/\ CreateFileStarts
          => /\ NumberSent = 1
             /\ \A r \in WritesIssued :
                    /\ r.op = "createFile" /\ r.sha = Null
                    /\ r.path = Join(currentPath, r.name)
                    /\ currentPath = Root => r.path = <<r.name>>
             /\ WritesIssued # {}
             /\ contents' = contents
       /\ (last'.op = "fileCreated" /\ last'.resp.status = 200)
          => contents' = Append(contents, [name |-> last'.req.name,
                                            path |-> last'.req.path,
                                            type |-> "file",
                                            sha |-> last'.resp.sha])
       /\ (last'.op = "fileCreated" /\ last'.resp.status # 200)
          => contents' = contents]_vars

\* a document was created inside folder d
C18_Witness ==
    /\ last.op = "fileCreated" /\ last.resp.status = 200
    /\ currentPath = <<"d">>
    /\ last.req.path = <<"d", NewFileName>>
    /\ contents # <<>>
    /\ contents[Len(contents)] = FileEntry(currentPath, NewFileName, last.resp.sha)
    /\ Len(contents) > 1

\* the step is a press of Create in the new-folder dialog
CreateFolderStarts == last'.op = "createFolder" /\ currentRepo # None

LogoutPressed == last'.op = "logout"

\* C20: a press of the logout button, in whatever state and also while the
\* open document is modified, asks nothing and sends nothing; after it the
\* session holds no token, no verifier and no state, the cached client is
\* gone, and the application state is reset: no user, no repositories, no
\* selected repository, the root path, no open document, an empty listing,
\* an empty history, the modified flag false; the login view is shown.  The
\* same holds had the session held a pending handshake when it was pressed.
C20_LogoutResetsEverything ==
    [][/\ LogoutPressed
          => /\ accessToken' = Null /\ codeVerifier' = Null /\ oauthState' = Null
             /\ octokitInstance' = Null
             /\ user' = None /\ repositories' = <<>>
             /\ currentRepo' = None /\ currentPath' = Root
             /\ currentFile' = None /\ contents' = <<>>
             /\ fileHistory' = <<>> /\ ~isModified'
             /\ editor' = "" /\ ~editorShown' /\ view' = "login"
             /\ last'.out # "declined"
             /\ RequestsSent = {}
             /\ \A k \in HandshakeIds :
                    LET c == handleLogout(persistHandshake(Cfg, k))
                    IN  /\ c.accessToken = Null /\ c.codeVerifier = Null
                        /\ c.oauthState = Null /\ c.octokitInstance = Null
                        /\ c.currentRepo = None /\ c.currentFile = None
                        /\ c.contents = <<>> /\ c.fileHistory = <<>>
                        /\ ~c.isModified]_vars

\* logout was pressed while the open document was modified and a request
\* was in flight
C20_Witness ==
    /\ last.op = "logout"
    /\ last.req.modified /\ last.req.token # Null
    /\ Outstanding # {}
    /\ currentFile = None /\ ~isModified /\ accessToken = Null

\* the step resolves the request of loadContents
ListingAnswered == last'.op = "contentsLoaded"

\* C21 as stated: after a listing request was answered 404 the listing is
\* empty and no error is shown; after it was answered with another error
\* the listing is as it was and an error is shown.
C21_NotFoundIsEmptyListing ==
    [][/\ (ListingAnswered /\ last'.resp.status = 404)
          => contents' = <<>> /\ "error" \notin Range(last'.toasts)
       /\ (ListingAnswered /\ last'.resp.status \notin {200, 404})
          => contents' = contents /\ "error" \in Range(last'.toasts)]_vars

\* the configuration a Gateway operation is called in when sessionStorage
\* holds no token, the application state being whatever it is
NoCredential == logout(Begin("gateway"))

\* the handler sent nothing and showed its error
FailsUnsent(c) == c.inflight = inflight /\ "error" \in Range(c.last.toasts)

\* C22: a Gateway operation called while no token is stored sends nothing
\* and throws 'Not authenticated': no step that ends without a token adds a
\* request, every request sent carries the client built from the stored
\* token, and each handler that reaches its Gateway call in a state with a
\* modified document open, the token removed from it, sends nothing and
\* runs its catch (loadFileHistory catches in silence).
C22_NoCredentialNoRequest ==
    [][/\ accessToken' = Null => RequestsSent = {}
       /\ \A r \in RequestsSent : r.auth # Null /\ r.auth = accessToken'
       /\ (last'.op = "logout" /\ currentRepo # None /\ currentFile # None /\ isModified)
          => LET u == NoCredential
             IN  /\ FailsUnsent(loadDashboard(u))
                 /\ FailsUnsent(dashboardUser(u, [status |-> 200, data |-> [login |-> "u"]]))
                 /\ FailsUnsent(handleCreateRepo(u, NewRepoName))
                 /\ FailsUnsent(loadContents(u, "none"))
                 /\ FailsUnsent(handleFileSelect(u, <<"b.md">>, TRUE, "none"))
                 /\ FailsUnsent(handleCreateFile(u, NewFileName))
                 /\ FailsUnsent(handleCreateFolder(u, NewFolderName))
                 /\ FailsUnsent(handleDeleteFile(u, <<"b.md">>, Sha(1)))
                 /\ FailsUnsent(handleSaveFile(u))
                 /\ FailsUnsent(handleVersionSelect(u, Commit(1)))
                 /\ loadFileHistory(u, u.currentFile.path, "none").inflight = inflight]_vars

\* the repository was created after the logout: handleCreateRepo went on to
\* handleRepoSelect and loadContents called the Gateway without a token
C22_Witness ==
    /\ last.op = "repoCreated" /\ last.resp.status = 200
    /\ accessToken = Null
    /\ currentRepo = Repo(NewRepoFullName)
    /\ "error" \in Range(last.toasts)
    /\ \A r \in Outstanding : r.kind # "getContents"

\* the requests in flight that are writes of handleSaveFile
SavesInFlight(bag) ==
    LET saves == {r \in BagToSet(bag) : r.kind = "write" /\ r.op = "save"}
    IN  IF saves = {} THEN 0
        ELSE BagCardinality([r \in saves |-> CopiesIn(r, bag)])

\* C26 as stated: at most one request of the dashboard is in flight at any
\* time, and no step sends a write of handleSaveFile while another one is
\* outstanding.
C26_TransitionsSerialized ==
    [][/\ BagCardinality(inflight') <= 1
       /\ SavesInFlight(inflight') <= 1]_vars

\* the step resolves a read of handleFileSelect with a file, after the
\* repository it was issued for was left or the user logged out
StaleLoad ==
    /\ last'.op = "fileLoaded"
    /\ last'.resp.status = 200 /\ last'.resp.data.type = "file"
    /\ (currentRepo # last'.req.repo \/ accessToken = Null)

\* C27 as stated, for the repository and the session: the answer to a read
\* of handleFileSelect is not applied once the user has selected another
\* repository or logged out, and a document is open only while a repository
\* is selected.
C27_StaleLoadNotApplied ==
    [][/\ StaleLoad => currentFile' = currentFile /\ editor' = editor
       /\ currentFile' # None => currentRepo' # None]_vars

\* C30: the history belongs to the open document: after every step, no
\* open document means an empty history, and a history that a step stores
\* is the answer to the request made for the path of the open document.
C30_HistoryOfOpenDocument ==
    [][/\ currentFile' = None => fileHistory' = <<>>
       /\ (fileHistory' # fileHistory /\ fileHistory' # <<>>)
          => /\ last'.op = "historyLoaded"
             /\ currentFile' # None
             /\ last'.req.path = currentFile'.path
             /\ last'.req.repo = currentRepo']_vars

\* the entry lies directly in the folder
ChildOf(item, dir) ==
    Len(item.path) = Len(dir) + 1 /\ SubSeq(item.path, 1, Len(dir)) = dir

\* C33 as stated: whenever no listing request is outstanding, every entry
\* of state.contents, the appended ones included, is a direct child of
\* state.currentPath.
C33_ListingIsOfCurrentPath ==
    (\A r \in Outstanding : r.kind # "getContents")
    => \A i \in 1..Len(contents) : ChildOf(contents[i], currentPath)

\* the step resolves with success a save or a version read that was issued
\* for a document other than the one open now
ForeignResponse ==
    /\ last'.op \in {"saved", "versionLoaded"}
    /\ last'.resp.status = 200
    /\ currentFile # None
    /\ currentFile.path # last'.req.path \/ currentRepo # last'.req.repo

\* C34 as stated: the answer to a save or to a version read that was issued
\* for one document is not applied to another document opened in the
\* meantime: the open document, its sha and baseline, the editor and the
\* modified flag are what they were.
C34_ResponseAppliedToItsDocument ==
    [][ForeignResponse
       => /\ currentFile' = currentFile
          /\ editor' = editor
          /\ isModified' = isModified]_vars

\* C35 as stated: whenever no token is stored, the application state is the
\* reset state: no repository, no open document, an empty listing, an empty
\* history, the modified flag false.
C35_LoggedOutIsReset ==
    accessToken = Null
    => /\ currentRepo = None
       /\ currentFile = None
       /\ contents = <<>>
       /\ fileHistory = <<>>
       /\ ~isModified

\* C37 as stated: the modified flag is true only while a document is open
\* and a repository is selected.
C37_ModifiedNeedsDocument ==
    isModified => currentFile # None /\ currentRepo # None

\* C38 as stated: no two entries of state.contents have the same path.
C38_ListingPathsDistinct ==
    \A i, j \in 1..Len(contents) : contents[i].path = contents[j].path => i = j

\* the step takes the text away from a modified document: the editor holds
\* another text without the user having typed it, or no document is open
EditsDiscarded ==
    /\ isModified /\ currentFile # None
    /\ last'.op # "edit"
    /\ editor' # editor \/ currentFile' = None

\* C36 as stated: the text of a modified document is replaced or dropped
\* only by a selection of a repository or a navigation the user confirmed,
\* by the opening of a document (the confirmation is asked when it is
\* requested), by the selection that follows a created repository, by the
\* successful delete of that document, or by logout.
C36_EditsNotDiscardedSilently ==
    [][EditsDiscarded
       => \/ last'.op \in {"repoSelect", "navigate"} /\ last'.req.confirmed
          \/ last'.op \in {"fileLoaded", "repoCreated"}
          \/ /\ last'.op = "deleted" /\ last'.resp.status = 200
             /\ last'.req.path = currentFile.path
          \/ last'.op = "logout"]_vars

----------------------------------------------------------------------------
(* Claims about the session store, checked under SpecAuth *)

\* the step is App.init running Auth.handleCallback on the url of the page
InitStep == phase = "constructed" /\ phase' = "running"

NoExchangeOutstanding == \A r \in Outstanding : r.kind # "exchange"

ClearedSession == [token |-> Null, verifier |-> Null, state |-> Null]

\* C5 as stated: every callback that carries a code and whose state differs
\* from the stored state fails with the state-mismatch error, sends no
\* token-exchange request and leaves the credential as it was.
C5_MismatchFailsWithStateMismatch ==
    [][(InitStep /\ url.code # Null /\ url.state # oauthState)
        => /\ last'.out = "stateMismatch"
           /\ tokenRequests' = tokenRequests
           /\ NoExchangeOutstanding'
           /\ accessToken' = accessToken]_vars

\* C5 amended: a callback that carries a code and a state other than the
\* stored one fails, sends no token-exchange request and leaves the credential
\* as it was; the failure is the state-mismatch error when the callback carries
\* no error parameter, and the OAuth error it carries otherwise.
C5_MismatchRejected ==
    [][(InitStep /\ url.code # Null /\ url.state # oauthState)
        => /\ last'.out = (IF url.error = Null THEN "stateMismatch" ELSE "oauthError")
           /\ last'.toasts = <<"error">>
           /\ tokenRequests' = tokenRequests
           /\ NoExchangeOutstanding'
           /\ accessToken' = accessToken]_vars

\* a handshake is pending and a callback with another state was rejected
C5_Witness ==
    /\ last.op = "init" /\ last.out = "stateMismatch"
    /\ oauthState # Null /\ url.state # Null /\ url.code # Null

\* C6 as stated: once handleCallback has finished on a callback carrying a
\* code, whether it succeeded or failed (state mismatch, missing verifier,
\* error response, response without a token), no verifier and no state is stored.
C6_HandshakeClearedAfterCallback ==
    (\/ last.op = "init" /\ last.out \in {"stateMismatch", "missingVerifier"}
     \/ last.op = "exchanged")
    => codeVerifier = Null /\ oauthState = Null

\* C7: after a callback whose state matched and whose code the token exchange
\* accepted, the credential is the returned access token, the verifier and the
\* state are removed, the url carries no callback parameters and
\* isAuthenticated is true; the request carried the verifier of the handshake
\* whose state the callback returned.
C7_SuccessfulCallback ==
    (last.op = "exchanged" /\ last.out = "ok")
    => /\ accessToken = last.resp.access_token
       /\ codeVerifier = Null /\ oauthState = Null
       /\ url = CleanUrl
       /\ isAuthenticated(Cfg)
       /\ last.req.code_verifier # Null

\* a token was received after a login
C7_Witness ==
    /\ last.op = "exchanged" /\ last.out = "ok"
    /\ lastHandshake # 0 /\ accessToken \in Tokens

\* C8: the stored verifier and the stored state are both absent, or both are
\* the values generated by the initiateLogin call that persisted last.
C8_OnePendingHandshake ==
    \/ codeVerifier = Null /\ oauthState = Null
    \/ /\ lastHandshake \in HandshakeIds
       /\ codeVerifier = Verifier(lastHandshake)
       /\ oauthState = OAuthState(lastHandshake)

\* a call persisted its pair over an earlier pair while another call is still
\* waiting for its digest
C8_Witness ==
    /\ last.op = "persistHandshake"
    /\ handshakes = MaxLogins
    /\ codeVerifier # Null
    /\ \E r \in Outstanding : r.kind = "digest"

\* C9 as stated: every callback carrying a code that is handled while no
\* handshake is pending fails with the missing-verifier error and sends no
\* token-exchange request.
C9_NoHandshakeFailsWithMissingVerifier ==
    [][(InitStep /\ url.code # Null /\ codeVerifier = Null /\ oauthState = Null)
        => /\ last'.out = "missingVerifier"
           /\ tokenRequests' = tokenRequests
           /\ NoExchangeOutstanding']_vars

\* C9 amended: a callback carrying a code that is handled while no handshake
\* is pending fails and sends no token-exchange request; it fails with the
\* missing-verifier error when it carries neither a state nor an error
\* parameter, with the state-mismatch error when it carries a state, and with
\* the OAuth error when it carries an error parameter.
C9_NoHandshakeRejected ==
    [][(InitStep /\ url.code # Null /\ codeVerifier = Null /\ oauthState = Null)
        => /\ last'.out = (IF url.error # Null THEN "oauthError"
                           ELSE IF url.state # Null THEN "stateMismatch"
                           ELSE "missingVerifier")
           /\ last'.toasts = <<"error">>
           /\ tokenRequests' = tokenRequests
           /\ NoExchangeOutstanding']_vars

\* a callback without state was handled while nothing was pending
C9_Witness ==
    /\ last.op = "init" /\ last.out = "missingVerifier"
    /\ url.code # Null /\ codeVerifier = Null /\ oauthState = Null

\* C23: when the get-user or the list-repositories request of loadDashboard
\* fails, the step that handles the failure leaves no token and no cached
\* client, the application state reset (no user, no repositories, no
\* selected repository, the root path, no open document, an empty listing,
\* an empty history, the modified flag false) and the login view shown.
C23_DashboardFailureLogsOut ==
    [][(/\ last'.op \in {"dashboardUser", "dashboardRepos"}
        /\ last'.resp.status # 200)
       => /\ accessToken' = Null /\ octokitInstance' = Null
          /\ codeVerifier' = Null /\ oauthState' = Null
          /\ user' = None /\ repositories' = <<>>
          /\ currentRepo' = None /\ currentPath' = Root
          /\ currentFile' = None /\ contents' = <<>>
          /\ fileHistory' = <<>> /\ ~isModified'
          /\ view' = "login" /\ ~editorShown' /\ ~loading'
          /\ last'.toasts = <<"error">>]_vars

\* the list of repositories failed to load after the user had loaded
C23_Witness ==
    /\ last.op = "dashboardRepos" /\ last.resp.status # 200
    /\ last.req.auth # Null
    /\ last.out = "dashboardFailed"
    /\ accessToken = Null /\ user = None /\ view = "login"

\* C10: Auth.logout leaves no credential, no verifier and no state, from any
\* state, and a second call changes nothing the first call left.
C10_LogoutIdempotent ==
    /\ last.op = "logout" => Session(Cfg) = ClearedSession
    /\ Session(logout(Cfg)) = ClearedSession
    /\ logout(Cfg).octokitInstance = Null
    /\ Session(logout(logout(Cfg))) = Session(logout(Cfg))
    /\ logout(logout(Cfg)).octokitInstance = logout(Cfg).octokitInstance

\* logout was pressed in a session that held a credential
C10_Witness ==
    /\ last.op = "logout"
    /\ last.req.token # Null
    /\ accessToken = Null

\* C28 as stated: at most one token-exchange request is ever sent with the
\* verifier of a handshake.
C28_HandshakeConsumedOnce ==
    \A k \in HandshakeIds : tokenRequests[Verifier(k)] <= 1

\* the step is the end of a successful Auth.handleCallback
TokenReceived == last'.op = "exchanged" /\ ExchangeOutcome(last'.resp) = "ok"

\* the step is a logout: the button, or the catch of loadDashboard
LoggedOut == last'.op = "logout" \/ last'.out = "dashboardFailed"

\* C29: the stored token changes to a token only at the end of a successful
\* handleCallback, where it becomes the token received, and is removed only
\* by a logout, pressed or forced; every other step, a failed callback, an
\* initiateLogin, a page load, leaves it as it was.
C29_CredentialWrittenAtLoginOnly ==
    [][/\ (accessToken' # accessToken /\ accessToken' # Null)
          => TokenReceived /\ accessToken' = last'.resp.access_token
       /\ (accessToken' # accessToken /\ accessToken' = Null) => LoggedOut
       /\ ~(TokenReceived \/ LoggedOut) => accessToken' = accessToken]_vars

\* a callback failed in a session that holds a token, and the token is there
C29_Witness ==
    /\ last.op = "init"
    /\ last.out \in {"stateMismatch", "missingVerifier", "oauthError"}
    /\ accessToken # Null

\* C39: after every step the cached client, when there is one, was built
\* with the token that is stored now, and every request to GitHub that the
\* step sends goes through the client of the token stored now.
C39_ClientOfStoredToken ==
    [][/\ octokitInstance' # Null => octokitInstance' = accessToken'
       /\ \A r \in RequestsSent :
              "auth" \in DOMAIN r => r.auth # Null /\ r.auth = accessToken']_vars

\* the token received for a second handshake is stored, and the client in
\* use was built with it
C39_Witness ==
    /\ accessToken = <<"token", 2>>
    /\ octokitInstance = accessToken
    /\ lastHandshake = 2

----------------------------------------------------------------------------
(* Claims about the token-exchange proxy, checked under SpecProxy *)

\* the Origin header is absent or is no entry of the allow-list
NotListed(request) == request.origin = Null \/ request.origin \notin ALLOWED_ORIGINS

\* the headers of a response that are CORS headers
CORSHeadersOf(response) == DOMAIN response.headers \cap CORSHeaderNames

\* C24 as stated: a request whose method is neither POST nor OPTIONS is
\* answered 405, a POST whose Origin header is absent or is no entry of the
\* allow-list is answered 403, and in both cases nothing is sent to the
\* token endpoint.
C24_RejectsMethodAndOrigin ==
    worker.pc # "idle" =>
        LET request == worker.request IN
        /\ request.method \notin {"POST", "OPTIONS"}
           => /\ worker.pc = "answered"
              /\ worker.response.status = 405
              /\ worker.upstream = <<>>
        /\ (request.method = "POST" /\ NotListed(request))
           => /\ worker.pc = "answered"
              /\ worker.response.status = 403
              /\ worker.upstream = <<>>

\* C25 as stated: the preflight of a listed origin is answered with the
\* four CORS headers, Access-Control-Allow-Origin being the origin of the
\* request; no answer to a request whose origin is absent or no entry of the
\* allow-list has a CORS header.
C25_CORSHeadersOnlyForListedOrigins ==
    worker.pc = "answered" =>
        LET request == worker.request
            response == worker.response
        IN  /\ (request.method = "OPTIONS" /\ ~NotListed(request))
               => /\ CORSHeadersOf(response) = CORSHeaderNames
                  /\ response.headers["Access-Control-Allow-Origin"] = request.origin
                  /\ response.headers["Access-Control-Allow-Methods"] = "POST, OPTIONS"
                  /\ response.headers["Access-Control-Allow-Headers"] = "Content-Type"
                  /\ response.headers["Access-Control-Max-Age"] = "86400"
            /\ NotListed(request) => CORSHeadersOf(response) = {}

\* the body has the two fields fetch requires
Complete(body) == body # Malformed /\ body.code # Null /\ body.client_id # Null

\* C32: the worker sends to the token endpoint only for a POST that passed
\* isOriginAllowed, with CLIENT_SECRET configured and a body holding code
\* and client_id, and what it sends is one POST to the token endpoint that
\* carries the secret of the environment with the code and the client_id of
\* the body; without a secret such a POST is answered 500 and without code
\* or client_id 400, nothing being sent; no field of a response body is the
\* secret.
C32_SecretInjectedForCompleteRequests ==
    worker.pc # "idle" =>
        LET request == worker.request
            secret == worker.env.CLIENT_SECRET
            checked == request.method = "POST" /\ isOriginAllowed(request.origin)
        IN  /\ worker.upstream # <<>>
               => /\ checked /\ secret # Null /\ Complete(request.body)
                  /\ Len(worker.upstream) = 1
                  /\ worker.upstream[1].url = GITHUB_TOKEN_URL
                  /\ worker.upstream[1].method = "POST"
                  /\ worker.upstream[1].params.client_secret = secret
                  /\ worker.upstream[1].params.code = request.body.code
                  /\ worker.upstream[1].params.client_id = request.body.client_id
            /\ (checked /\ secret = Null)
               => /\ worker.pc = "answered"
                  /\ worker.response.status = 500
                  /\ worker.upstream = <<>>
            /\ (checked /\ secret # Null /\ request.body # Malformed
                /\ ~Complete(request.body))
               => /\ worker.pc = "answered"
                  /\ worker.response.status = 400
                  /\ worker.upstream = <<>>
            /\ (worker.pc = "answered" /\ secret # Null /\ worker.response.body # Null)
               => \A f \in DOMAIN worker.response.body :
                      worker.response.body[f] # secret

\* the token endpoint has answered a request that carried the secret, and
\* the worker has passed the token on
C32_Witness ==
    /\ worker.pc = "answered"
    /\ worker.response.status = 200
    /\ worker.upstream # <<>>
    /\ worker.upstream[1].params.client_secret = <<"secret">>
    /\ worker.response.body.access_token # Null

====
